---------------------------- MODULE Spec2Model ----------------------------
(***************************************************************************)
(* Colorado legislative district maps (co_legislators).                    *)
(*                                                                         *)
(* The repository holds four variants of one script, loadData():           *)
(*   "toggle"        src/main.js 13-271    two maps, county toggle control *)
(*   "clickLabel"    src/main.js 276-521   two maps, clickable labels      *)
(*   "layerControl"  src/main.js 537-684   two maps, Leaflet layer control *)
(*   "single"        src/unnamed/part_000  one map, county toggle control  *)
(*                                                                         *)
(* JavaScript strings are sequences of one-character strings, so that      *)
(* toLowerCase, startsWith, split, trim and String() are computed and not  *)
(* assumed.  JavaScript values are tagged records [t |-> type, v |-> ...]. *)
(* Numbers produced by a division are exact fractions [num, den].          *)
(***************************************************************************)
EXTENDS Integers, Sequences, FiniteSets, TLC

VARIABLES
    variant,          \* which of the four scripts runs
    pc,               \* position of loadData: [stage, i]
    fetchState,       \* file -> "pending" | "fulfilled" | "rejected"
    requests,         \* file -> number of fetch() calls made for it
    json,             \* file -> result of `await res.json()`, or NotParsed
    legMap,           \* map id -> index handed to addDistrictLayer
    maps,             \* the L.map instances created so far
    layers,           \* map id -> set of layers attached to the map
    districtLayer,    \* map id -> what L.geoJSON(geojson, ...) built
    countyLayer,      \* map id -> the county overlay and its labels
    control,          \* map id -> text shown by the overlay control
    countiesVisible,  \* map id -> the click handler's closure variable
    activated,        \* map id -> the overlay control was used (history)
    party, color,     \* partyColor: argument and returned colour
    geometry, centroid \* getPolygonCentroid: argument and result

pipeVars == <<variant, pc, fetchState, requests, json, legMap, maps, layers,
              districtLayer, countyLayer, control, countiesVisible, activated>>
fnVars == <<party, color, geometry, centroid>>
vars == <<variant, pc, fetchState, requests, json, legMap, maps, layers,
          districtLayer, countyLayer, control, countiesVisible, activated,
          party, color, geometry, centroid>>

(***************************************************************************)
(* JavaScript values                                                       *)
(***************************************************************************)
Undef == [t |-> "undefined"]
Null == [t |-> "null"]
Str(s) == [t |-> "string", v |-> s]
Num(n) == [t |-> "number", v |-> n]
Arr(s) == [t |-> "array", v |-> s]

\* ToBoolean of the values the data files can hold
Truthy(x) ==
    CASE x.t = "string" -> x.v # <<>>
      [] x.t = "number" -> x.v # 0
      [] x.t = "array" -> TRUE
      [] OTHER -> FALSE

\* a || b
Or(a, b) == IF Truthy(a) THEN a ELSE b

Digit == <<"0", "1", "2", "3", "4", "5", "6", "7", "8", "9">>

RECURSIVE NatToString(_)
NatToString(n) ==
    IF n < 10 THEN <<Digit[n + 1]>>
    ELSE NatToString(n \div 10) \o <<Digit[(n % 10) + 1]>>

\* String(value) as called on a District value
String(x) ==
    CASE x.t = "string" -> x.v
      [] x.t = "number" -> IF x.v < 0 THEN <<"-">> \o NatToString(0 - x.v)
                           ELSE NatToString(x.v)
      [] x.t = "null" -> <<"n", "u", "l", "l">>
      [] OTHER -> <<"u", "n", "d", "e", "f", "i", "n", "e", "d">>

(***************************************************************************)
(* Strings                                                                 *)
(***************************************************************************)
LowerOf(c) ==
    CASE c = "R" -> "r" [] c = "E" -> "e" [] c = "P" -> "p"
      [] c = "D" -> "d" [] c = "M" -> "m" [] c = "U" -> "u"
      [] c = "S" -> "s" [] c = "H" -> "h" [] c = "A" -> "a"
      [] c = "B" -> "b" [] c = "I" -> "i" [] c = "L" -> "l"
      [] OTHER -> c

toLowerCase(s) == [i \in 1..Len(s) |-> LowerOf(s[i])]

startsWith(s, w) == Len(s) >= Len(w) /\ SubSeq(s, 1, Len(w)) = w

(***************************************************************************)
(* partyColor, src/main.js 73-79                                           *)
(***************************************************************************)
LightYellow == "#fff59d"
LightRed == "#ff9999"
LightBlue == "#90caf9"

\* partyColor without the toLowerCase call
partyColorNoLower(p) ==
    IF ~Truthy(p) THEN LightYellow
    ELSE IF startsWith(p.v, <<"r", "e", "p">>) THEN LightRed
    ELSE IF startsWith(p.v, <<"d", "e", "m">>) THEN LightBlue
    ELSE LightYellow

partyColor(p) ==
    IF ~Truthy(p) THEN LightYellow
    ELSE LET lp == toLowerCase(p.v)
         IN  IF startsWith(lp, <<"r", "e", "p">>) THEN LightRed
             ELSE IF startsWith(lp, <<"d", "e", "m">>) THEN LightBlue
             ELSE LightYellow

(***************************************************************************)
(* getPolygonCentroid, src/main.js 20-42                                   *)
(* A position is <<lng, lat>>, a ring a sequence of positions, a Polygon's *)
(* coordinates a sequence of rings, a MultiPolygon's a sequence of those.  *)
(***************************************************************************)
Abs(a) == IF a < 0 THEN 0 - a ELSE a

RECURSIVE GCD(_, _)
GCD(a, b) == IF b = 0 THEN a ELSE GCD(b, a % b)

NaN == [num |-> 0, den |-> 0]

\* a / n as an exact fraction in lowest terms; 0 / 0 is NaN
Div(a, n) ==
    IF n = 0 THEN NaN
    ELSE LET g == GCD(Abs(a), n)
         IN  [num |-> (IF a < 0 THEN 0 - (Abs(a) \div g) ELSE a \div g),
              den |-> n \div g]

RECURSIVE SumAt(_, _, _)
SumAt(coords, k, i) ==
    IF i > Len(coords) THEN 0 ELSE coords[i][k] + SumAt(coords, k, i + 1)

\* the loop with >= in place of >: the last of the longest rings is kept
RECURSIVE forEachPolygonGE(_, _, _, _)
forEachPolygonGE(polys, i, maxLen, coords) ==
    IF i > Len(polys) THEN coords
    ELSE IF Len(polys[i][1]) >= maxLen
         THEN forEachPolygonGE(polys, i + 1, Len(polys[i][1]), polys[i][1])
         ELSE forEachPolygonGE(polys, i + 1, maxLen, coords)

\* geometry.coordinates.forEach(ring => { if (ring[0].length > maxLen) ... })
RECURSIVE forEachPolygon(_, _, _, _)
forEachPolygon(polys, i, maxLen, coords) ==
    IF i > Len(polys) THEN coords
    ELSE IF Len(polys[i][1]) > maxLen
         THEN forEachPolygon(polys, i + 1, Len(polys[i][1]), polys[i][1])
         ELSE forEachPolygon(polys, i + 1, maxLen, coords)

\* the positions of all rings, in order
RECURSIVE Flatten(_)
Flatten(rings) == IF rings = <<>> THEN <<>> ELSE Head(rings) \o Flatten(Tail(rings))

\* the vertices of every ring, holes included
PolygonCoordsAllRings(g) == Flatten(g.coordinates)

\* coords = geometry.coordinates[0]
PolygonCoords(g) == g.coordinates[1]

getPolygonCentroid(g) ==
    IF g.type \notin {"Polygon", "MultiPolygon"} THEN Null
    ELSE LET coords == IF g.type = "Polygon" THEN PolygonCoords(g)
                       ELSE forEachPolygon(g.coordinates, 1, 0, <<>>)
             n == Len(coords)
             x == SumAt(coords, 1, 1)
             y == SumAt(coords, 2, 1)
         IN  Arr(<<Div(y, n), Div(x, n)>>)

\* layer.getBounds().getCenter() of the layer L.geoJSON builds for a feature
RECURSIVE MinAt(_, _, _)
MinAt(ps, k, i) ==
    IF i = Len(ps) THEN ps[i][k]
    ELSE LET r == MinAt(ps, k, i + 1) IN IF ps[i][k] < r THEN ps[i][k] ELSE r

RECURSIVE MaxAt(_, _, _)
MaxAt(ps, k, i) ==
    IF i = Len(ps) THEN ps[i][k]
    ELSE LET r == MaxAt(ps, k, i + 1) IN IF ps[i][k] > r THEN ps[i][k] ELSE r

RECURSIVE FlattenPolygons(_)
FlattenPolygons(polys) ==
    IF polys = <<>> THEN <<>> ELSE Flatten(Head(polys)) \o FlattenPolygons(Tail(polys))

Positions(g) ==
    CASE g.type = "Polygon" -> Flatten(g.coordinates)
      [] g.type = "MultiPolygon" -> FlattenPolygons(g.coordinates)
      [] OTHER -> g.coordinates

getBoundsCenter(g) ==
    LET ps == Positions(g)
    IN  Arr(<<Div(MinAt(ps, 2, 1) + MaxAt(ps, 2, 1), 2),
              Div(MinAt(ps, 1, 1) + MaxAt(ps, 1, 1), 2)>>)

(***************************************************************************)
(* Name handling of addDistrictLayer, src/main.js 168-172                  *)
(***************************************************************************)
includes(s, c) == \E i \in 1..Len(s) : s[i] = c

RECURSIVE IndexOf(_, _, _)
IndexOf(s, c, i) ==
    IF i > Len(s) THEN 0 ELSE IF s[i] = c THEN i ELSE IndexOf(s, c, i + 1)

RECURSIVE split(_, _)
split(s, c) ==
    LET k == IndexOf(s, c, 1)
    IN  IF k = 0 THEN <<s>>
        ELSE <<SubSeq(s, 1, k - 1)>> \o split(SubSeq(s, k + 1, Len(s)), c)

\* the white space String.prototype.trim removes, as far as names hold it
WhiteSpace == {" ", "\t"}

RECURSIVE trimStart(_)
trimStart(s) == IF s # <<>> /\ Head(s) \in WhiteSpace THEN trimStart(Tail(s)) ELSE s

RECURSIVE trimEnd(_)
trimEnd(s) ==
    IF s # <<>> /\ s[Len(s)] \in WhiteSpace
    THEN trimEnd(SubSeq(s, 1, Len(s) - 1)) ELSE s

trim(s) == trimEnd(trimStart(s))

Unknown == <<"U", "n", "k", "n", "o", "w", "n">>
UnknownParty == Unknown \o <<" ", "P", "a", "r", "t", "y">>
NoneListed == <<"N", "o", "n", "e", " ", "l", "i", "s", "t", "e", "d">>

\* leg?.field
Opt(leg, field) == IF leg = Undef THEN Undef ELSE leg[field]

\* the name with the parts left as split gives them
displayNameNoTrim(leg) ==
    LET name == Or(Opt(leg, "Name"), Str(Unknown)).v
    IN  IF includes(name, ",")
        THEN split(name, ",")[2] \o <<" ">> \o split(name, ",")[1]
        ELSE name

\* the name cut at its first comma only
displayNameFirstComma(leg) ==
    LET name == Or(Opt(leg, "Name"), Str(Unknown)).v
        k == IndexOf(name, ",", 1)
    IN  IF includes(name, ",")
        THEN trim(SubSeq(name, k + 1, Len(name))) \o <<" ">>
                 \o trim(SubSeq(name, 1, k - 1))
        ELSE name

\* let displayName = leg?.Name || 'Unknown'; if (displayName.includes(',')) ...
displayNameOf(leg) ==
    LET name == Or(Opt(leg, "Name"), Str(Unknown)).v
    IN  IF includes(name, ",")
        THEN LET parts == [i \in 1..Len(split(name, ",")) |-> trim(split(name, ",")[i])]
             IN  parts[2] \o <<" ">> \o parts[1]
        ELSE name

(***************************************************************************)
(* The legislator index, src/main.js 57-65 and src/unnamed/part_000 15-19  *)
(* An object used as a dictionary is a function from its keys.             *)
(***************************************************************************)
EmptyObject == <<>>

\* an assignment that keeps an existing entry
PutFirstWins(obj, k, v) ==
    [x \in (DOMAIN obj) \cup {k} |-> IF x \in DOMAIN obj THEN obj[x] ELSE v]

\* obj[k] = v
Put(obj, k, v) ==
    [x \in (DOMAIN obj) \cup {k} |-> IF x = k THEN v ELSE obj[x]]

\* obj[k]
Lookup(obj, k) == IF k \in DOMAIN obj THEN obj[k] ELSE Undef

Senate == <<"S", "e", "n", "a", "t", "e">>
House == <<"H", "o", "u", "s", "e">>

\* legislators.forEach(leg => { if (leg.Chamber === 'Senate') ... })
RECURSIVE forEachLeg(_, _, _)
forEachLeg(legs, i, acc) ==
    IF i > Len(legs) THEN acc
    ELSE LET leg == legs[i]
         IN  forEachLeg(legs, i + 1,
                 IF leg.Chamber = Str(Senate)
                 THEN [acc EXCEPT !.senate = Put(@, String(leg.District), leg)]
                 ELSE IF leg.Chamber = Str(House)
                 THEN [acc EXCEPT !.house = Put(@, String(leg.District), leg)]
                 ELSE acc)

\* legislators.forEach(leg => { legMap[String(leg.District)] = leg; })
RECURSIVE forEachLegSingle(_, _, _)
forEachLegSingle(legs, i, acc) ==
    IF i > Len(legs) THEN acc
    ELSE forEachLegSingle(legs, i + 1, Put(acc, String(legs[i].District), legs[i]))

(***************************************************************************)
(* addDistrictLayer, src/main.js 150-202 (toggle), 391-455 (clickLabel),   *)
(* 593-645 (layerControl), src/unnamed/part_000 39-88 (single)             *)
(***************************************************************************)
Variants == {"toggle", "clickLabel", "layerControl", "single"}
MapIds == {"map", "houseMap"}

NoPopupPart == [kind |-> "absent", items |-> <<>>]
NoLabel == [present |-> FALSE]

\* (leg?.Counties && leg.Counties.length) ? <ul>...</ul> : None listed
countiesHtml(leg) ==
    IF Truthy(Opt(leg, "Counties")) /\ Len(leg.Counties.v) # 0
    THEN [kind |-> "ul", items |-> leg.Counties.v]
    ELSE [kind |-> "i", items |-> <<NoneListed>>]

committeeItem(com) ==
    com.name \o (IF Truthy(com.role) THEN <<" ", "(">> \o com.role.v \o <<")">>
                 ELSE <<>>)

committeesHtml(leg) ==
    IF Truthy(Opt(leg, "Committees")) /\ Len(leg.Committees.v) # 0
    THEN [kind |-> "ul",
          items |-> [i \in 1..Len(leg.Committees.v) |->
                        committeeItem(leg.Committees.v[i])]]
    ELSE [kind |-> "i", items |-> <<NoneListed>>]

\* the party text with the fallback of the name
partyTextShort(leg) == Or(Opt(leg, "Party"), Str(Unknown)).v

\* ${leg?.Party || 'Unknown Party'}
partyText(leg) == Or(Opt(leg, "Party"), Str(UnknownParty)).v

\* the popup with counties and committees (main.js 179-184, 444-449)
detailPopup(district, leg) ==
    [district |-> String(district), party |-> partyText(leg),
     name |-> displayNameOf(leg),
     counties |-> countiesHtml(leg), committees |-> committeesHtml(leg)]

\* the popup with name and party only (main.js 408-418, part_000 56-66)
shortPopup(district, leg) ==
    [district |-> String(district), party |-> partyText(leg),
     name |-> displayNameOf(leg),
     counties |-> NoPopupPart, committees |-> NoPopupPart]

\* if (leg?.Name) { L.marker(center, {...}).addTo(mapInstance) }
districtLabel(v, feature, leg) ==
    IF ~Truthy(Opt(leg, "Name")) THEN NoLabel
    ELSE [present |-> TRUE,
          at |-> getBoundsCenter(feature.geometry),
          html |-> displayNameOf(leg),
          interactive |-> (v \notin {"toggle", "layerControl"}),
          popup |-> IF v = "clickLabel"
                    THEN detailPopup(feature.properties.District, leg)
                    ELSE NoPopupPart]

\* a style callback that colours without looking the record up
districtFeatureStyleUnjoined(v, feature, index) ==
    LET district == feature.properties.District
        leg == Lookup(index, String(district))
    IN  [leg |-> leg,
         fillColor |-> partyColor(Undef),
         popup |-> IF v \in {"toggle", "layerControl"}
                   THEN detailPopup(district, leg)
                   ELSE shortPopup(district, leg),
         label |-> districtLabel(v, feature, leg)]

\* what style and onEachFeature make of one feature
districtFeature(v, feature, index) ==
    LET district == feature.properties.District
        leg == Lookup(index, String(district))
    IN  [leg |-> leg,
         fillColor |-> partyColor(Opt(leg, "Party")),
         popup |-> IF v \in {"toggle", "layerControl"}
                   THEN detailPopup(district, leg)
                   ELSE shortPopup(district, leg),
         label |-> districtLabel(v, feature, leg)]

addDistrictLayer(v, geojson, index) ==
    [i \in 1..Len(geojson) |-> districtFeature(v, geojson[i], index)]

(***************************************************************************)
(* The county overlay, src/main.js 88-109, 214-235 (toggle), 339-360,      *)
(* 467-488 (clickLabel), 581-592, 663-674 (layerControl),                  *)
(* src/unnamed/part_000 91-114 (single)                                    *)
(***************************************************************************)
NoLayer == [built |-> FALSE, error |-> "none", features |-> <<>>, labels |-> <<>>]

\* feature.properties.name || ...NAME || ...County || 'Unknown'
countyName(feature) ==
    Or(Or(Or(feature.properties.name, feature.properties.NAME),
          feature.properties.County), Str(Unknown)).v

\* L.geoJSON makes a Marker of a Point: it has no getBounds
hasGetBounds(g) == g.type # "Point"

\* getPolygonCentroid(feature.geometry) || layer.getBounds().getCenter()
labelAnchor(g) ==
    LET c == getPolygonCentroid(g)
    IN  IF Truthy(c) THEN c ELSE getBoundsCenter(g)

\* the error onEachFeature throws for a feature, "none" when it returns
countyFeatureError(v, feature) ==
    IF v = "layerControl" THEN "none"
    ELSE IF v = "single" THEN "ReferenceError: getPolygonCentroid is not defined"
    ELSE IF ~Truthy(getPolygonCentroid(feature.geometry))
            /\ ~hasGetBounds(feature.geometry)
    THEN "TypeError: layer.getBounds is not a function"
    ELSE "none"

countyLabel(feature) ==
    [at |-> labelAnchor(feature.geometry), html |-> countyName(feature)]

\* L.geoJSON(counties, {style, onEachFeature})
buildCountyLayer(v, counties) ==
    LET bad == {i \in 1..Len(counties) : countyFeatureError(v, counties[i]) # "none"}
    IN  IF bad # {}
        THEN [NoLayer EXCEPT
                !.error = countyFeatureError(v,
                              counties[CHOOSE i \in bad : \A j \in bad : i <= j])]
        ELSE [built |-> TRUE, error |-> "none",
              features |-> [i \in 1..Len(counties) |->
                  [popup |-> IF v = "layerControl"
                             THEN Str(countyName(counties[i])) ELSE Undef]],
              labels |-> IF v = "layerControl" THEN <<>>
                         ELSE [i \in 1..Len(counties) |-> countyLabel(counties[i])]]

(***************************************************************************)
(* The data files.  A parsed file is the value `await res.json()` gave:    *)
(* the array of legislators.json, the features of a FeatureCollection.     *)
(***************************************************************************)
FSenate == "senate_coords.json"
FLeg == "legislators.json"
FCounties == "colorado_counties.geojson"
FHouse == "house_coords.json"
AllFiles == {FSenate, FLeg, FCounties, FHouse}

\* the fetch() calls inside Promise.all([...])
Files(v) == IF v = "single" THEN {FSenate, FLeg, FCounties} ELSE AllFiles

\* the `await xRes.json()` lines, in order
ParseOrder(v) ==
    IF v \in {"toggle", "clickLabel"} THEN <<FSenate, FLeg, FCounties, FHouse>>
    ELSE <<FSenate, FLeg, FCounties>>

MaxLegs == 2

Square == <<(<<0, 0>>), (<<2, 0>>), (<<2, 2>>), (<<0, 2>>)>>
Wedge == <<(<<0, 0>>), (<<4, 1>>), (<<2, 5>>)>>
Hole == <<(<<1, 1>>), (<<1, 1>>), (<<1, 2>>), (<<1, 1>>), (<<1, 1>>)>>

LegA == [District |-> Num(5), Chamber |-> Str(Senate),
         Name |-> Str(<<"L", "i", ",", " ", "A", "l">>),
         Party |-> Str(<<"D", "e", "m", "o", "c", "r", "a", "t">>),
         Counties |-> Arr(<<(<<"A", "d", "a">>)>>),
         Committees |-> Arr(<<[name |-> <<"A", "g">>,
                              role |-> Str(<<"C", "h", "a", "i", "r">>)]>>)]
LegB == [District |-> Str(<<"5">>), Chamber |-> Str(House),
         Name |-> Str(<<"B", "o", " ", "O", "z">>),
         Party |-> Str(<<"R", "E", "P">>),
         Counties |-> Undef, Committees |-> Arr(<<>>)]
LegC == [District |-> Num(5), Chamber |-> Str(Senate),
         Name |-> Undef, Party |-> Undef,
         Counties |-> Arr(<<>>), Committees |-> Undef]
LegD == [District |-> Num(7), Chamber |-> Undef,
         Name |-> Str(<<"C", "y">>), Party |-> Str(<<"I", "n", "d">>),
         Counties |-> Undef,
         Committees |-> Arr(<<[name |-> <<"E", "d">>, role |-> Undef]>>)]
PipelineLegs == {LegA, LegB, LegC, LegD}

SeqsUpTo(S, n) == UNION {[1..k -> S] : k \in 0..n}

District5 == [properties |-> [District |-> Num(5)],
              geometry |-> [type |-> "Polygon", coordinates |-> <<Square>>]]
District7 == [properties |-> [District |-> Str(<<"7">>)],
              geometry |-> [type |-> "Polygon", coordinates |-> <<Wedge>>]]
District9 == [properties |-> [District |-> Num(9)],
              geometry |-> [type |-> "MultiPolygon",
                            coordinates |-> <<(<<Wedge>>), (<<Square>>)>>]]
DistrictFiles == {<<District5, District9>>, <<District7>>, <<District5>>}

CountyA == [properties |-> [name |-> Str(<<"A", "d", "a">>), NAME |-> Undef,
                            County |-> Undef],
            geometry |-> [type |-> "Polygon", coordinates |-> <<Wedge, Hole>>]]
CountyB == [properties |-> [name |-> Undef, NAME |-> Str(<<"B", "O", "B">>),
                            County |-> Str(<<"C", "y">>)],
            geometry |-> [type |-> "MultiPolygon",
                          coordinates |-> <<(<<Wedge>>), (<<Square, Hole>>)>>]]
CountyC == [properties |-> [name |-> Undef, NAME |-> Undef, County |-> Undef],
            geometry |-> [type |-> "LineString", coordinates |-> Wedge]]
\* a Point holds one position
CountyP == [properties |-> [name |-> Str(<<>>), NAME |-> Undef,
                            County |-> Str(<<"C", "y">>)],
            geometry |-> [type |-> "Point", coordinates |-> <<(<<4, 1>>)>>]]
CountyFiles == {<<>>, <<CountyA, CountyB>>, <<CountyC>>, <<CountyA, CountyP>>}

Data(f) ==
    CASE f = FLeg -> SeqsUpTo(PipelineLegs, MaxLegs)
      [] f = FCounties -> CountyFiles
      [] OTHER -> DistrictFiles

NotParsed == [parsed |-> FALSE, value |-> <<>>]
Parsed(d) == [parsed |-> TRUE, value |-> d]

(***************************************************************************)
(* loadData                                                                *)
(***************************************************************************)
At(stage, i) == [stage |-> stage, i |-> i, error |-> "none"]
Rejected(e) == [stage |-> "rejected", i |-> 0, error |-> e]

\* the statements after the last await, in source order
Program(v) ==
    CASE v \in {"toggle", "clickLabel"} ->
           << <<"index", "map">>,
              <<"createMap", "map">>, <<"countyLayer", "map">>,
              <<"addControl", "map">>, <<"addDistrictLayer", "map">>,
              <<"createMap", "houseMap">>, <<"countyLayer", "houseMap">>,
              <<"addControl", "houseMap">>, <<"addDistrictLayer", "houseMap">> >>
      [] v = "layerControl" ->
           << <<"index", "map">>,
              <<"createMap", "map">>, <<"countyLayer", "map">>,
              <<"addDistrictLayer", "map">>, <<"addControl", "map">>,
              <<"createMap", "houseMap">>, <<"countyLayer", "houseMap">>,
              <<"addDistrictLayer", "houseMap">>, <<"addControl", "houseMap">> >>
      [] OTHER ->
           << <<"index", "map">>,
              <<"createMap", "map">>, <<"addDistrictLayer", "map">>,
              <<"countyLayer", "map">>, <<"addControl", "map">> >>

AtStep(op, m) ==
    /\ pc.stage = "render"
    /\ Program(variant)[pc.i] = <<op, m>>

Advance ==
    IF pc.i = Len(Program(variant)) THEN At("done", 0) ELSE At("render", pc.i + 1)

Tile == <<"tile", 0>>
Districts == <<"districts", 0>>
Counties == <<"counties", 0>>
DistrictLabel(i) == <<"districtLabel", i>>
CountyLabel(i) == <<"countyLabel", i>>

NoDistrictLayer == [built |-> FALSE, features |-> <<>>]

\* nothing is rendered before the awaits of loadData return
NothingRendered ==
    /\ legMap = [m \in MapIds |-> EmptyObject]
    /\ maps = {}
    /\ layers = [m \in MapIds |-> {}]
    /\ districtLayer = [m \in MapIds |-> NoDistrictLayer]
    /\ countyLayer = [m \in MapIds |-> NoLayer]
    /\ control = [m \in MapIds |-> "none"]
    /\ countiesVisible = [m \in MapIds |-> FALSE]
    /\ activated = [m \in MapIds |-> FALSE]

\* loadData has called fetch() for every file and waits in Promise.all
PipeInit(v) ==
    /\ variant = v
    /\ pc = At("fetch", 0)
    /\ fetchState = [f \in AllFiles |-> IF f \in Files(v) THEN "pending" ELSE "none"]
    /\ requests = [f \in AllFiles |-> IF f \in Files(v) THEN 1 ELSE 0]
    /\ json = [f \in AllFiles |-> NotParsed]
    /\ NothingRendered

FnIdle ==
    /\ party = Undef
    /\ color = "none"
    /\ geometry = [type |-> "none", coordinates |-> <<>>]
    /\ centroid = Undef

Init == (\E v \in Variants : PipeInit(v)) /\ FnIdle

\* a fetch() of Promise.all([...]) is fulfilled; the last one resumes loadData
FetchFulfilled(f) ==
    /\ fetchState[f] = "pending"
    /\ fetchState' = [fetchState EXCEPT ![f] = "fulfilled"]
    /\ pc' = IF /\ pc.stage = "fetch"
                /\ \A g \in Files(variant) \ {f} : fetchState[g] = "fulfilled"
             THEN At("parse", 1) ELSE pc
    /\ UNCHANGED <<variant, requests, json, legMap, maps, layers, districtLayer,
                   countyLayer, control, countiesVisible, activated>>
    /\ UNCHANGED fnVars

\* a fetch() is rejected: Promise.all rejects, and so does loadData
FetchRejected(f) ==
    /\ fetchState[f] = "pending"
    /\ fetchState' = [fetchState EXCEPT ![f] = "rejected"]
    /\ pc' = IF pc.stage = "fetch" THEN Rejected("TypeError: Failed to fetch") ELSE pc
    /\ UNCHANGED <<variant, requests, json, legMap, maps, layers, districtLayer,
                   countyLayer, control, countiesVisible, activated>>
    /\ UNCHANGED fnVars

AfterParse ==
    IF pc.i = Len(ParseOrder(variant)) THEN At("render", 1) ELSE At("parse", pc.i + 1)

\* `await xRes.json()` gives the file's data
ParseResolved(f) ==
    /\ pc.stage = "parse"
    /\ ParseOrder(variant)[pc.i] = f
    /\ \E d \in Data(f) : json' = [json EXCEPT ![f] = Parsed(d)]
    /\ pc' = AfterParse
    /\ UNCHANGED <<variant, fetchState, requests, legMap, maps, layers,
                   districtLayer, countyLayer, control, countiesVisible, activated>>
    /\ UNCHANGED fnVars

\* `await xRes.json()` rejects: the body is not JSON
ParseRejected(f) ==
    /\ pc.stage = "parse"
    /\ ParseOrder(variant)[pc.i] = f
    /\ pc' = Rejected("SyntaxError: Unexpected token")
    /\ UNCHANGED <<variant, fetchState, requests, json, legMap, maps, layers,
                   districtLayer, countyLayer, control, countiesVisible, activated>>
    /\ UNCHANGED fnVars

\* the index each map's addDistrictLayer call is handed
buildIndex(v, legislators) ==
    IF v = "single"
    THEN [m \in MapIds |-> IF m = "map"
                           THEN forEachLegSingle(legislators, 1, EmptyObject)
                           ELSE EmptyObject]
    ELSE LET r == forEachLeg(legislators, 1,
                             [senate |-> EmptyObject, house |-> EmptyObject])
         IN  [m \in MapIds |-> IF m = "map" THEN r.senate ELSE r.house]

BuildIndex ==
    /\ AtStep("index", "map")
    /\ legMap' = buildIndex(variant, json[FLeg].value)
    /\ pc' = Advance
    /\ UNCHANGED <<variant, fetchState, requests, json, maps, layers,
                   districtLayer, countyLayer, control, countiesVisible, activated>>
    /\ UNCHANGED fnVars

\* L.map(id).setView(...); L.tileLayer(...).addTo(map)
CreateMap(m) ==
    /\ AtStep("createMap", m)
    /\ maps' = maps \cup {m}
    /\ layers' = [layers EXCEPT ![m] = {Tile}]
    /\ pc' = Advance
    /\ UNCHANGED <<variant, fetchState, requests, json, legMap, districtLayer,
                   countyLayer, control, countiesVisible, activated>>
    /\ UNCHANGED fnVars

\* L.geoJSON(counties, {...}).addTo(map): built and added at once
BuildCountyLayerAddTo(m) ==
    /\ AtStep("countyLayer", m)
    /\ LET r == buildCountyLayer(variant, json[FCounties].value)
       IN  /\ countyLayer' = [countyLayer EXCEPT ![m] = r]
           /\ layers' = [layers EXCEPT
                           ![m] = IF r.built THEN @ \cup {Counties} ELSE @]
           /\ pc' = IF r.error # "none" THEN Rejected(r.error) ELSE Advance
    /\ UNCHANGED <<variant, fetchState, requests, json, legMap, maps,
                   districtLayer, control, countiesVisible, activated>>
    /\ UNCHANGED fnVars

\* const countyLayer = L.geoJSON(counties, {...}): built, not added to the map
BuildCountyLayer(m) ==
    /\ AtStep("countyLayer", m)
    /\ LET r == buildCountyLayer(variant, json[FCounties].value)
       IN  /\ countyLayer' = [countyLayer EXCEPT ![m] = r]
           /\ pc' = IF r.error # "none" THEN Rejected(r.error) ELSE Advance
    /\ UNCHANGED <<variant, fetchState, requests, json, legMap, maps, layers,
                   districtLayer, control, countiesVisible, activated>>
    /\ UNCHANGED fnVars

\* map.addControl(new CountyToggleControl()) / L.control.layers(...).addTo(map)
AddControl(m) ==
    /\ AtStep("addControl", m)
    /\ control' = [control EXCEPT
                      ![m] = IF variant = "layerControl" THEN "layers"
                             ELSE "Show Counties"]
    /\ countiesVisible' = [countiesVisible EXCEPT ![m] = FALSE]
    /\ pc' = Advance
    /\ UNCHANGED <<variant, fetchState, requests, json, legMap, maps, layers,
                   districtLayer, countyLayer, activated>>
    /\ UNCHANGED fnVars

\* the first argument of the addDistrictLayer call for map m
geojsonFor(v, m) ==
    IF m = "map" THEN [declared |-> TRUE, value |-> json[FSenate].value]
    ELSE IF v = "layerControl" THEN [declared |-> FALSE, value |-> <<>>]
    ELSE [declared |-> TRUE, value |-> json[FHouse].value]

labelLayers(features) ==
    {DistrictLabel(i) : i \in {j \in 1..Len(features) : features[j].label.present}}

\* addDistrictLayer(geojson, legMap, mapInstance)
AddDistrictLayer(m) ==
    /\ AtStep("addDistrictLayer", m)
    /\ LET g == geojsonFor(variant, m)
           built == addDistrictLayer(variant, g.value, legMap[m])
       IN  IF ~g.declared
           THEN /\ pc' = Rejected("ReferenceError: houseGeojson is not defined")
                /\ UNCHANGED <<districtLayer, layers>>
           ELSE /\ districtLayer' = [districtLayer EXCEPT
                                       ![m] = [built |-> TRUE, features |-> built]]
                /\ layers' = [layers EXCEPT
                                ![m] = @ \cup {Districts} \cup labelLayers(built)]
                /\ pc' = Advance
    /\ UNCHANGED <<variant, fetchState, requests, json, legMap, maps,
                   countyLayer, control, countiesVisible, activated>>
    /\ UNCHANGED fnVars

\* the overlay layer and every label of countyLabels
overlayLayers(m) ==
    {Counties} \cup {CountyLabel(i) : i \in 1..Len(countyLayer[m].labels)}

\* a handler whose hide branch removes the overlay layer and not its labels
onclickKeepLabels(m, st) ==
    IF ~st.countiesVisible
    THEN [countiesVisible |-> TRUE, layers |-> st.layers \cup overlayLayers(m),
          control |-> "Hide Counties"]
    ELSE [countiesVisible |-> FALSE, layers |-> st.layers \ {Counties},
          control |-> "Show Counties"]

\* a handler whose hide branch removes every layer above the tiles
onclickClear(m, st) ==
    IF ~st.countiesVisible
    THEN [countiesVisible |-> TRUE, layers |-> st.layers \cup overlayLayers(m),
          control |-> "Hide Counties"]
    ELSE [countiesVisible |-> FALSE, layers |-> {Tile},
          control |-> "Show Counties"]

\* container.onclick
onclick(m, st) ==
    IF ~st.countiesVisible
    THEN [countiesVisible |-> TRUE, layers |-> st.layers \cup overlayLayers(m),
          control |-> "Hide Counties"]
    ELSE [countiesVisible |-> FALSE, layers |-> st.layers \ overlayLayers(m),
          control |-> "Show Counties"]

toggleState(m) ==
    [countiesVisible |-> countiesVisible[m], layers |-> layers[m],
     control |-> control[m]]

\* events are dispatched once loadData has run to its end or has thrown
Idle == pc.stage \in {"done", "rejected"}

\* a click handler that keeps its flag in one variable shared by both controls
ToggleClickShared(m) ==
    /\ Idle
    /\ control[m] \in {"Show Counties", "Hide Counties"}
    /\ LET st == onclick(m, toggleState(m))
       IN  /\ countiesVisible' = [x \in MapIds |-> st.countiesVisible]
           /\ layers' = [layers EXCEPT ![m] = st.layers]
           /\ control' = [control EXCEPT ![m] = st.control]
    /\ activated' = [activated EXCEPT ![m] = TRUE]
    /\ UNCHANGED <<variant, pc, fetchState, requests, json, legMap, maps,
                   districtLayer, countyLayer>>
    /\ UNCHANGED fnVars

\* a click on the toggle control of map m
ToggleClick(m) ==
    /\ Idle
    /\ control[m] \in {"Show Counties", "Hide Counties"}
    /\ LET st == onclick(m, toggleState(m))
       IN  /\ countiesVisible' = [countiesVisible EXCEPT ![m] = st.countiesVisible]
           /\ layers' = [layers EXCEPT ![m] = st.layers]
           /\ control' = [control EXCEPT ![m] = st.control]
    /\ activated' = [activated EXCEPT ![m] = TRUE]
    /\ UNCHANGED <<variant, pc, fetchState, requests, json, legMap, maps,
                   districtLayer, countyLayer>>
    /\ UNCHANGED fnVars

\* a click on the "Counties" checkbox of the layers control of map m
LayerControlClick(m) ==
    /\ Idle
    /\ control[m] = "layers"
    /\ layers' = [layers EXCEPT
                     ![m] = IF Counties \in @ THEN @ \ {Counties}
                            ELSE @ \cup {Counties}]
    /\ activated' = [activated EXCEPT ![m] = TRUE]
    /\ UNCHANGED <<variant, pc, fetchState, requests, json, legMap, maps,
                   districtLayer, countyLayer, control, countiesVisible>>
    /\ UNCHANGED fnVars

Next ==
    \/ \E f \in AllFiles : FetchFulfilled(f)
    \/ \E f \in AllFiles : FetchRejected(f)
    \/ \E f \in AllFiles : ParseResolved(f)
    \/ \E f \in AllFiles : ParseRejected(f)
    \/ BuildIndex
    \/ \E m \in MapIds : CreateMap(m)
    \/ \E m \in MapIds : BuildCountyLayer(m)
    \/ \E m \in MapIds : AddControl(m)
    \/ \E m \in MapIds : AddDistrictLayer(m)
    \/ \E m \in MapIds : ToggleClick(m)
    \/ \E m \in MapIds : LayerControlClick(m)

Spec == Init /\ [][Next]_vars

(***************************************************************************)
(* Claims about the pipeline, checked under Spec                           *)
(***************************************************************************)
\* the features handed to the addDistrictLayer call that built map m's layer
districtInput(m) == geojsonFor(variant, m).value

missesIndex(m, i) ==
    String(districtInput(m)[i].properties.District) \notin DOMAIN legMap[m]

\* C1: every feature of a built district layer whose stringified District
\* is no key of the index was processed without an error: it has the neutral
\* fill colour #fff59d, the popup name "Unknown" and the popup party
\* "Unknown Party".
C1_MissingLegislatorFallback ==
    \A m \in MapIds :
        districtLayer[m].built =>
            /\ Len(districtLayer[m].features) = Len(districtInput(m))
            /\ \A i \in 1..Len(districtInput(m)) :
                   missesIndex(m, i) =>
                       /\ districtLayer[m].features[i].fillColor = "#fff59d"
                       /\ districtLayer[m].features[i].popup.name = Unknown
                       /\ districtLayer[m].features[i].popup.party =
                              Unknown \o <<" ">> \o <<"P", "a", "r", "t", "y">>

C1_Witness ==
    \E m \in MapIds :
        /\ districtLayer[m].built
        /\ DOMAIN legMap[m] # {}
        /\ \E i \in 1..Len(districtInput(m)) : missesIndex(m, i)

chamberOf(m) == IF m = "map" THEN Str(Senate) ELSE Str(House)

indexBuilt == pc.stage = "done" \/ (pc.stage = "render" /\ pc.i > 1)

\* C3: the index is two mappings partitioned by an exact match on Chamber:
\* the Senate mapping holds only records whose Chamber is "Senate", the
\* House mapping only records whose Chamber is "House", a record with
\* another or no Chamber is in neither, and no district feature of a map
\* is joined to a record of the other chamber.
C3_ChamberPartition ==
    /\ indexBuilt =>
          \A m \in MapIds : \A k \in DOMAIN legMap[m] :
              legMap[m][k].Chamber = chamberOf(m)
    /\ \A m \in MapIds : \A i \in 1..Len(districtLayer[m].features) :
          LET leg == districtLayer[m].features[i].leg
          IN  leg # Undef => leg.Chamber = chamberOf(m)

toggleMaps == {m \in MapIds : control[m] \in {"Show Counties", "Hide Counties"}}

C5_State ==
    \A m \in toggleMaps :
        /\ countiesVisible[m] <=>
              (overlayLayers(m) \subseteq layers[m] /\ control[m] = "Hide Counties")
        /\ ~countiesVisible[m] <=>
              (overlayLayers(m) \cap layers[m] = {} /\ control[m] = "Show Counties")

C5_Flip ==
    \A m \in MapIds : ToggleClick(m) => countiesVisible'[m] = ~countiesVisible[m]

\* C5: in every reachable state the visibility flag of a toggle control is
\* true exactly when the overlay layer and every label marker are attached
\* and the control shows "Hide Counties", false exactly when all of them are
\* detached and it shows "Show Counties"; and every click flips the flag.
C5_ToggleInvariant == []C5_State /\ [][C5_Flip]_vars

C5_Witness ==
    \E m \in toggleMaps :
        /\ countiesVisible[m]
        /\ Len(countyLayer[m].labels) >= 2
        /\ CountyLabel(2) \in layers[m]

\* C6: from every reachable state in which a toggle control can be clicked,
\* two clicks give back the same set of attached layers and the same
\* control text.
C6_DoubleClickRoundTrip ==
    \A m \in toggleMaps :
        Idle =>
            LET st == toggleState(m)
                twice == onclick(m, onclick(m, st))
            IN  /\ twice.layers = st.layers
                /\ twice.control = st.control
                /\ twice.countiesVisible = st.countiesVisible

C6_Witness ==
    \E m \in toggleMaps :
        /\ Idle
        /\ activated[m]
        /\ ~countiesVisible[m]
        /\ {Tile, Districts, DistrictLabel(1)} \subseteq layers[m]
        /\ Len(countyLayer[m].labels) >= 2

\* C7: once a map has its overlay control, the overlay layer exists with
\* one label per county feature (the layer-control variant builds none),
\* and as long as the control has not been used neither the overlay layer
\* nor any of its labels is attached to the map.
C7_OverlayDetachedUntilShown ==
    \A m \in MapIds :
        /\ (control[m] # "none" \/ (pc.stage = "done" /\ m \in maps)) =>
              /\ countyLayer[m].built
              /\ variant # "layerControl" =>
                    Len(countyLayer[m].labels) = Len(json[FCounties].value)
        /\ ~activated[m] => overlayLayers(m) \cap layers[m] = {}

C7_Witness ==
    \E m \in MapIds :
        /\ pc.stage = "done"
        /\ control[m] = "Show Counties"
        /\ ~activated[m]
        /\ Len(countyLayer[m].labels) >= 2
        /\ Districts \in layers[m]

\* C8: no map exists until every fetched file is fetched and parsed; a
\* rejected fetch or parse leaves no map at all; no file is requested twice.
C8_AllOrNothing ==
    /\ maps # {} =>
          \A f \in Files(variant) : fetchState[f] = "fulfilled" /\ json[f].parsed
    /\ (\E f \in AllFiles : fetchState[f] = "rejected") => maps = {}
    /\ \A f \in AllFiles : requests[f] <= 1

(***************************************************************************)
(* The index loop on its own: loadData stands at the legislators.forEach   *)
(* statement with any list of records parsed from legislators.json.        *)
(***************************************************************************)
MaxRecords == 2

IndexRecords ==
    [District : {Num(5), Str(<<"5">>), Num(12)},
     Chamber : {Str(Senate), Str(House), Str(<<"s", "e", "n", "a", "t", "e">>), Undef},
     Name : {Str(<<"A">>), Str(<<"B">>)},
     Party : {Undef}, Counties : {Undef}, Committees : {Undef}]

InitIndex ==
    /\ \E v \in Variants :
          /\ variant = v
          /\ fetchState = [f \in AllFiles |->
                              IF f \in Files(v) THEN "fulfilled" ELSE "none"]
          /\ requests = [f \in AllFiles |-> IF f \in Files(v) THEN 1 ELSE 0]
          /\ \E legs \in SeqsUpTo(IndexRecords, MaxRecords) :
                json = [f \in AllFiles |->
                           IF f = FLeg THEN Parsed(legs)
                           ELSE IF \E i \in 1..Len(ParseOrder(v)) : ParseOrder(v)[i] = f
                           THEN Parsed(<<>>) ELSE NotParsed]
    /\ pc = At("render", 1)
    /\ NothingRendered
    /\ FnIdle

SpecIndex == InitIndex /\ [][BuildIndex]_vars

\* the records of the list that belong in the index of map m
relevant(m) ==
    {i \in 1..Len(json[FLeg].value) :
        IF variant = "single" THEN m = "map"
        ELSE json[FLeg].value[i].Chamber = chamberOf(m)}

keyFive == <<"5">>

\* C2: after the loop, the keys of each mapping are the stringified
\* Districts of its records, each key holds the last record of the list with
\* that key, and the number 5 and the string "5" share the key "5".
C2_LastWriteWins ==
    indexBuilt =>
        \A m \in MapIds :
            LET legs == json[FLeg].value
                rel == relevant(m)
            IN  /\ DOMAIN legMap[m] = {String(legs[i].District) : i \in rel}
                /\ \A k \in DOMAIN legMap[m] :
                      \E i \in rel :
                          /\ String(legs[i].District) = k
                          /\ legMap[m][k] = legs[i]
                          /\ \A j \in rel : j > i => String(legs[j].District) # k
                /\ \A i \in rel :
                      (/\ legs[i].District \in {Num(5), Str(<<"5">>)}
                       /\ \A j \in rel :
                             j > i => legs[j].District \notin {Num(5), Str(<<"5">>)})
                      => (keyFive \in DOMAIN legMap[m] /\ legMap[m][keyFive] = legs[i])

C2_Witness ==
    /\ indexBuilt
    /\ \E m \in MapIds :
          LET legs == json[FLeg].value
          IN  /\ Len(legs) = 2
              /\ relevant(m) = {1, 2}
              /\ legs[1].District = Num(5)
              /\ legs[2].District = Str(<<"5">>)
              /\ legs[1].Name # legs[2].Name
              /\ DOMAIN legMap[m] = {keyFive}
              /\ legMap[m][keyFive] = legs[2]

(***************************************************************************)
(* partyColor on its own                                                   *)
(***************************************************************************)
MaxPartyLen == 3

PartyAlphabet == {"r", "R", "e", "E", "p", "P", "d", "D", "m", "M", " ", "."}

PartyWords ==
    {<<"R", "e", "p", "u", "b", "l", "i", "c", "a", "n">>,
     <<"D", "e", "m", "o", "c", "r", "a", "t">>,
     <<"r", "e", "p", ".">>,
     <<"I", "n", "d", "e", "p", "e", "n", "d", "e", "n", "t">>,
     <<"U", "n", "a", "f", "f", "i", "l", "i", "a", "t", "e", "d">>,
     <<"L", "i", "b", "e", "r", "t", "a", "r", "i", "a", "n">>,
     <<" ", "r", "e", "p">>}

PartyValues ==
    {Undef, Null}
        \cup {Str(w) : w \in SeqsUpTo(PartyAlphabet, MaxPartyLen) \cup PartyWords}

InitColor ==
    /\ PipeInit("toggle")
    /\ party \in PartyValues
    /\ color = "none"
    /\ geometry = [type |-> "none", coordinates |-> <<>>]
    /\ centroid = Undef

\* partyColor(leg?.Party)
CallPartyColor ==
    /\ color = "none"
    /\ color' = partyColor(party)
    /\ UNCHANGED <<party, geometry, centroid>>
    /\ UNCHANGED pipeVars

SpecColor == InitColor /\ [][CallPartyColor]_vars

\* the two spellings of a letter
SameLetter(c, lower) ==
    \/ c = lower
    \/ <<c, lower>> \in {<<"R", "r">>, <<"E", "e">>, <<"P", "p">>,
                          <<"D", "d">>, <<"M", "m">>}

PrefixIgnoringCase(s, w) ==
    /\ Len(s) >= Len(w)
    /\ \A i \in 1..Len(w) : SameLetter(s[i], w[i])

\* C4: partyColor returns the neutral tone for an absent or empty party, the
\* red tone for a string starting with "rep" in any letter case, the blue
\* tone for one starting with "dem" in any letter case, and the neutral tone
\* for every other string; the three tones differ.
C4_ThreeWayPartition ==
    color # "none" =>
        /\ color \in {"#fff59d", "#ff9999", "#90caf9"}
        /\ color = "#ff9999" <=>
              (party.t = "string" /\ PrefixIgnoringCase(party.v, <<"r", "e", "p">>))
        /\ color = "#90caf9" <=>
              (party.t = "string" /\ PrefixIgnoringCase(party.v, <<"d", "e", "m">>))

C4_Witness ==
    /\ party = Str(<<"R", "E", "P">>)
    /\ color = "#ff9999"

(***************************************************************************)
(* getPolygonCentroid on its own                                           *)
(***************************************************************************)
MaxRing == 3
MaxPolys == 2
MaxSubRing == 2

NonEmptySeqs(S, n) == UNION {[1..k -> S] : k \in 1..n}

Vertices == {<<0, 0>>, <<2, 0>>, <<2, 2>>, <<0, 2>>, <<-3, 1>>}
SubVertices == {<<0, 0>>, <<2, 1>>}

WithHoles(rings) == {<<r>> : r \in rings} \cup {<<r, Hole>> : r \in rings}

Polygons ==
    {[type |-> "Polygon", coordinates |-> c] :
        c \in WithHoles(NonEmptySeqs(Vertices, MaxRing) \cup {Square})}

MultiPolygons ==
    {[type |-> "MultiPolygon", coordinates |-> c] :
        c \in NonEmptySeqs(WithHoles(NonEmptySeqs(SubVertices, MaxSubRing)), MaxPolys)}

OtherGeometries ==
    {[type |-> "Point", coordinates |-> <<(<<2, 1>>)>>],
     [type |-> "LineString", coordinates |-> Wedge]}

InitCentroid ==
    /\ PipeInit("toggle")
    /\ party = Undef
    /\ color = "none"
    /\ \/ geometry \in Polygons
       \/ geometry \in MultiPolygons
       \/ geometry \in OtherGeometries
    /\ centroid = Undef

\* getPolygonCentroid(feature.geometry)
CallGetPolygonCentroid ==
    /\ centroid = Undef
    /\ centroid' = getPolygonCentroid(geometry)
    /\ UNCHANGED <<party, color, geometry>>
    /\ UNCHANGED pipeVars

SpecCentroid == InitCentroid /\ [][CallGetPolygonCentroid]_vars

RECURSIVE RingTotal(_, _)
RingTotal(ring, k) ==
    IF ring = <<>> THEN 0
    ELSE RingTotal(SubSeq(ring, 1, Len(ring) - 1), k) + ring[Len(ring)][k]

\* q is the fraction total / n
IsQuotient(q, total, n) == q.den > 0 /\ q.num * n = total * q.den

\* c is the pair (mean lat, mean lng) of the vertices of ring
IsMeanOf(c, ring) ==
    /\ c.t = "array"
    /\ Len(c.v) = 2
    /\ IsQuotient(c.v[1], RingTotal(ring, 2), Len(ring))
    /\ IsQuotient(c.v[2], RingTotal(ring, 1), Len(ring))

\* C9: the centroid of a Polygon is (mean lat, mean lng) of the vertices of
\* its first ring alone; the ring [[0,0],[2,0],[2,2],[0,2]] gives (1, 1).
C9_PolygonOuterRingMean ==
    (centroid # Undef /\ geometry.type = "Polygon") =>
        /\ IsMeanOf(centroid, geometry.coordinates[1])
        /\ geometry.coordinates[1] = Square =>
              centroid.v = <<[num |-> 1, den |-> 1], [num |-> 1, den |-> 1]>>

C9_Witness ==
    /\ geometry.type = "Polygon"
    /\ geometry.coordinates = <<Square, Hole>>
    /\ centroid = Arr(<<[num |-> 1, den |-> 1], [num |-> 1, den |-> 1]>>)

countyLayerRun(m) == countyLayer[m].built \/ countyLayer[m].error # "none"

\* C11: getPolygonCentroid gives null for every county geometry that is
\* neither a Polygon nor a MultiPolygon, and where the script makes county
\* labels every county feature has one, placed at the centre of the
\* feature's bounds when getPolygonCentroid gave null and at the centroid
\* otherwise.
C11_NullFallsBackToBoundsCenter ==
    \A m \in MapIds :
        (countyLayerRun(m) /\ variant # "layerControl") =>
            \A i \in 1..Len(json[FCounties].value) :
                LET g == json[FCounties].value[i].geometry
                    c == getPolygonCentroid(g)
                IN  /\ g.type \notin {"Polygon", "MultiPolygon"} => c = Null
                    /\ countyLayer[m].built
                    /\ Len(countyLayer[m].labels) = Len(json[FCounties].value)
                    /\ countyLayer[m].labels[i].at =
                          (IF c = Null THEN getBoundsCenter(g) ELSE c)

(***************************************************************************)
(* addDistrictLayer on its own: loadData stands at the call                *)
(* addDistrictLayer(senateGeojson, senateLegMap, map) with an index built  *)
(* from at most one record and a district file of two features, of which   *)
(* the second (District "7") has no record.                                *)
(***************************************************************************)
MaxNameLen == 5

NameAlphabet == {"a", "B", ",", " ", "\t"}

SmithJane == <<"S", "m", "i", "t", "h", ",", " ", "J", "a", "n", "e">>
JaneSmith == <<"J", "a", "n", "e", " ", "S", "m", "i", "t", "h">>
SmithJaneJr == SmithJane \o <<",", " ", "J", "r", ".">>

Names == SeqsUpTo(NameAlphabet, MaxNameLen) \cup {SmithJane, JaneSmith, SmithJaneJr}

Democrat == <<"D", "e", "m", "o", "c", "r", "a", "t">>

DistrictRecords ==
    {[LegA EXCEPT !.Name = Str(n)] : n \in Names}
        \cup [District : {Num(5), Str(<<"5">>), Num(3)},
              Chamber : {Str(Senate)},
              Name : {Undef, Str(SmithJane)},
              Party : {Undef, Str(<<>>), Str(Democrat), Str(<<"R", "E", "P">>),
                       Str(<<"I", "n", "d">>)},
              Counties : {Undef, Arr(<<>>), LegA.Counties},
              Committees : {Undef, Arr(<<>>), LegA.Committees}]

District3 == [properties |-> [District |-> Num(3)],
              geometry |-> [type |-> "Polygon", coordinates |-> <<Wedge, Hole>>]]

DistrictFeatures == <<District5, District7, District3>>

\* the position of addDistrictLayer(senateGeojson, ...) among the statements
districtStep(v) == CHOOSE i \in 1..Len(Program(v)) :
                       Program(v)[i] = <<"addDistrictLayer", "map">>

\* the statement op for the Senate map comes before that call
before(v, op) == \E j \in 1..(districtStep(v) - 1) : Program(v)[j] = <<op, "map">>

InitDistrict ==
    /\ \E v \in Variants :
          /\ variant = v
          /\ pc = At("render", districtStep(v))
          /\ fetchState = [f \in AllFiles |->
                              IF f \in Files(v) THEN "fulfilled" ELSE "none"]
          /\ requests = [f \in AllFiles |-> IF f \in Files(v) THEN 1 ELSE 0]
          /\ \E legs \in {<<>>} \cup {<<r>> : r \in DistrictRecords} :
                /\ json = [f \in AllFiles |->
                              IF f = FLeg THEN Parsed(legs)
                              ELSE IF f = FSenate THEN Parsed(DistrictFeatures)
                              ELSE IF \E i \in 1..Len(ParseOrder(v)) :
                                         ParseOrder(v)[i] = f
                              THEN Parsed(<<>>) ELSE NotParsed]
                /\ legMap = buildIndex(v, legs)
          /\ countyLayer = [m \in MapIds |->
                               IF m = "map" /\ before(v, "countyLayer")
                               THEN buildCountyLayer(v, <<>>) ELSE NoLayer]
          /\ control = [m \in MapIds |->
                           IF m = "map" /\ before(v, "addControl")
                           THEN "Show Counties" ELSE "none"]
    /\ maps = {"map"}
    /\ layers = [m \in MapIds |-> IF m = "map" THEN {Tile} ELSE {}]
    /\ districtLayer = [m \in MapIds |-> NoDistrictLayer]
    /\ countiesVisible = [m \in MapIds |-> FALSE]
    /\ activated = [m \in MapIds |-> FALSE]
    /\ FnIdle

SpecDistrict == InitDistrict /\ [][AddDistrictLayer("map")]_vars

\* the Name of the record the index holds for the feature, when it is a
\* non-empty string
knownName(f) == f.leg # Undef /\ f.leg.Name.t = "string" /\ f.leg.Name.v # <<>>

commas(s) == {i \in 1..Len(s) : s[i] = ","}

\* t is s without the white space at its two ends
IsTrimOf(t, s) ==
    /\ t = <<>> \/ (t[1] \notin {" ", "\t"} /\ t[Len(t)] \notin {" ", "\t"})
    /\ \E a \in 0..Len(s) :
          /\ a + Len(t) <= Len(s)
          /\ SubSeq(s, a + 1, a + Len(t)) = t
          /\ \A i \in (1..a) \cup ((a + Len(t) + 1)..Len(s)) : s[i] \in {" ", "\t"}

\* r is first, one space, last, where first and last are a and b trimmed
IsFirstLast(r, a, b) ==
    \E j \in 1..Len(r) :
        /\ r[j] = " "
        /\ IsTrimOf(SubSeq(r, 1, j - 1), a)
        /\ IsTrimOf(SubSeq(r, j + 1, Len(r)), b)

\* the name shown for a built feature: in its popup and, if any, its label
shows(f, r) == f.popup.name = r /\ (f.label.present => f.label.html = r)

\* C12: the name shown for a record whose Name has one comma is the part
\* after the comma, trimmed, one space, and the part before it, trimmed
\* ("Smith, Jane" is shown as "Jane Smith"); a Name without a comma is shown
\* unchanged.
C12_DisplayNameReorders ==
    districtLayer["map"].built =>
        \A i \in 1..Len(districtLayer["map"].features) :
            LET f == districtLayer["map"].features[i]
                n == f.leg.Name.v
            IN  knownName(f) =>
                    /\ commas(n) = {} => shows(f, n)
                    /\ Cardinality(commas(n)) = 1 =>
                          LET k == CHOOSE c \in commas(n) : TRUE
                          IN  /\ IsFirstLast(f.popup.name, SubSeq(n, k + 1, Len(n)),
                                              SubSeq(n, 1, k - 1))
                              /\ shows(f, f.popup.name)
                    /\ n = SmithJane => shows(f, JaneSmith)
                    /\ n = JaneSmith => shows(f, JaneSmith)

C12_Witness ==
    /\ districtLayer["map"].built
    /\ LET f == districtLayer["map"].features[1]
       IN  /\ knownName(f)
           /\ f.leg.Name.v = <<" ", "a", ",", "B">>
           /\ f.popup.name = <<"B", " ", "a">>
           /\ f.label.present
           /\ f.label.html = <<"B", " ", "a">>

\* C17: the name shown for a record whose Name has two or more commas is
\* the part between the first and the second comma, trimmed, one space, and
\* the part before the first comma, trimmed; nothing after the second comma
\* is shown ("Smith, Jane, Jr." is shown as "Jane Smith").
C17_MultiCommaKeepsTwoParts ==
    districtLayer["map"].built =>
        \A i \in 1..Len(districtLayer["map"].features) :
            LET f == districtLayer["map"].features[i]
                n == f.leg.Name.v
            IN  (knownName(f) /\ Cardinality(commas(n)) >= 2) =>
                    LET k1 == CHOOSE c \in commas(n) : \A d \in commas(n) : c <= d
                        k2 == CHOOSE c \in commas(n) \ {k1} :
                                  \A d \in commas(n) \ {k1} : c <= d
                    IN  /\ IsFirstLast(f.popup.name, SubSeq(n, k1 + 1, k2 - 1),
                                       SubSeq(n, 1, k1 - 1))
                        /\ shows(f, f.popup.name)
                        /\ n = SmithJaneJr => shows(f, JaneSmith)

C17_Witness ==
    /\ districtLayer["map"].built
    /\ LET f == districtLayer["map"].features[1]
       IN  /\ knownName(f)
           /\ f.leg.Name.v = SmithJaneJr
           /\ f.popup.name = JaneSmith
           /\ f.label.present
           /\ f.label.html = JaneSmith

\* the property of a record is absent or an empty list
noneOf(leg, field) ==
    leg = Undef \/ leg[field] = Undef \/ leg[field] = Arr(<<>>)

\* the part of a popup is the placeholder, not a list
isPlaceholder(part) ==
    /\ part.kind = "i"
    /\ part.items = << <<"N", "o", "n", "e", " ", "l", "i", "s", "t", "e", "d">> >>

\* C13: the popup of every district feature shows "None listed" for the
\* counties when the record has no or an empty Counties, and likewise for
\* the committees; the popup of a feature without a record shows both
\* placeholders, the name "Unknown" and the party "Unknown Party".
C13_PopupPlaceholders ==
    districtLayer["map"].built =>
        \A i \in 1..Len(districtLayer["map"].features) :
            LET f == districtLayer["map"].features[i]
            IN  /\ noneOf(f.leg, "Counties") => isPlaceholder(f.popup.counties)
                /\ noneOf(f.leg, "Committees") => isPlaceholder(f.popup.committees)
                /\ f.leg = Undef =>
                      /\ f.popup.name = <<"U", "n", "k", "n", "o", "w", "n">>
                      /\ f.popup.party = <<"U", "n", "k", "n", "o", "w", "n", " ",
                                           "P", "a", "r", "t", "y">>

\* the colour the party p is to be shown in: red for a string that starts
\* with "rep", blue for one that starts with "dem", letter case ignored,
\* light yellow for anything else
IsColorFor(c, p) ==
    IF p.t = "string" /\ PrefixIgnoringCase(p.v, <<"r", "e", "p">>) THEN c = "#ff9999"
    ELSE IF p.t = "string" /\ PrefixIgnoringCase(p.v, <<"d", "e", "m">>) THEN c = "#90caf9"
    ELSE c = "#fff59d"

\* r is the name n in first-last order
IsDisplayName(r, n) ==
    IF commas(n) = {} THEN r = n
    ELSE LET k1 == CHOOSE c \in commas(n) : \A d \in commas(n) : c <= d
             rest == {c \in commas(n) : c > k1} \cup {Len(n) + 1}
             k2 == CHOOSE c \in rest : \A d \in rest : c <= d
         IN  IsFirstLast(r, SubSeq(n, k1 + 1, k2 - 1), SubSeq(n, 1, k1 - 1))

\* C14: for every district feature whose stringified District is a key of
\* the index, the fill colour is the colour of the Party of the record under
\* that key (blue #90caf9 for "Democrat"), the popup shows the name of that
\* same record in first-last order, and its party.
C14_EndToEndJoin ==
    districtLayer["map"].built =>
        \A i \in 1..Len(districtLayer["map"].features) :
            LET f == districtLayer["map"].features[i]
                key == String(districtInput("map")[i].properties.District)
                rec == legMap["map"][key]
            IN  key \in DOMAIN legMap["map"] =>
                    /\ IsColorFor(f.fillColor, rec.Party)
                    /\ rec.Party = Str(<<"D", "e", "m", "o", "c", "r", "a", "t">>)
                          => f.fillColor = "#90caf9"
                    /\ (rec.Name.t = "string" /\ rec.Name.v # <<>>)
                          => IsDisplayName(f.popup.name, rec.Name.v)
                    /\ (rec.Party.t = "string" /\ rec.Party.v # <<>>)
                          => f.popup.party = rec.Party.v

C14_Witness ==
    /\ districtLayer["map"].built
    /\ <<"3">> \in DOMAIN legMap["map"]
    /\ legMap["map"][<<"3">>].District = Num(3)
    /\ legMap["map"][<<"3">>].Party = Str(<<"D", "e", "m", "o", "c", "r", "a", "t">>)
    /\ legMap["map"][<<"3">>].Name = Str(SmithJane)
    /\ districtInput("map")[3].properties.District = Num(3)
    /\ districtLayer["map"].features[3].fillColor = "#90caf9"
    /\ districtLayer["map"].features[3].popup.name = JaneSmith

(***************************************************************************)
(* Claims about the district labels and the two toggle controls, checked   *)
(* under Spec                                                              *)
(***************************************************************************)
\* the features of map m whose joined record has a Name
named(m) ==
    {i \in 1..Len(districtLayer[m].features) :
        LET leg == districtLayer[m].features[i].leg
        IN  leg # Undef /\ leg.Name.t = "string" /\ leg.Name.v # <<>>}

\* c is the centre (lat, lng) of the smallest box around the positions of g
IsBoundsCentre(c, g) ==
    LET ps == Positions(g)
        lats == {ps[k][2] : k \in 1..Len(ps)}
        lngs == {ps[k][1] : k \in 1..Len(ps)}
        lo(S) == CHOOSE x \in S : \A y \in S : x <= y
        hi(S) == CHOOSE x \in S : \A y \in S : x >= y
    IN  /\ c.t = "array"
        /\ Len(c.v) = 2
        /\ IsQuotient(c.v[1], lo(lats) + hi(lats), 2)
        /\ IsQuotient(c.v[2], lo(lngs) + hi(lngs), 2)

\* C15: once the district layer of a map is built, the district labels
\* attached to the map are those of the features whose joined record has a
\* Name, one each, so as many as there are such features; each of them is
\* non-interactive and stands at the centre of the feature's bounds.
C15_DistrictLabels ==
    \A m \in MapIds :
        districtLayer[m].built =>
            /\ \A i \in 1..Len(districtLayer[m].features) :
                  /\ DistrictLabel(i) \in layers[m] <=> i \in named(m)
                  /\ districtLayer[m].features[i].label.present <=> i \in named(m)
            /\ Cardinality({l \in layers[m] : l[1] = "districtLabel"})
                  = Cardinality(named(m))
            /\ \A i \in named(m) :
                  /\ ~districtLayer[m].features[i].label.interactive
                  /\ IsBoundsCentre(districtLayer[m].features[i].label.at,
                                    districtInput(m)[i].geometry)

\* a click on the toggle of map m leaves the other map's flag, attached
\* layers and control text as they are
C16_Frame ==
    \A m \in MapIds : \A o \in MapIds \ {m} :
        ToggleClick(m) =>
            /\ countiesVisible'[o] = countiesVisible[o]
            /\ layers'[o] = layers[o]
            /\ control'[o] = control[o]

\* the flag of map m changes in no step but a click on the toggle of map m
C16_Owner ==
    \A m \in MapIds :
        countiesVisible'[m] # countiesVisible[m] => ToggleClick(m)

\* C16: in every step of every behaviour, whatever the order of the clicks
\* on the two controls, a click on one map's toggle leaves the other map's
\* visibility flag, attached layers and control text unchanged, and a
\* visibility flag changes only in a click on its own toggle.
C16_ToggleIndependence == [][C16_Frame /\ C16_Owner]_vars

C16_Witness ==
    /\ variant \in {"toggle", "clickLabel"}
    /\ activated["map"] /\ activated["houseMap"]
    /\ countiesVisible["map"] /\ ~countiesVisible["houseMap"]
    /\ control["map"] = "Hide Counties" /\ control["houseMap"] = "Show Counties"
    /\ Len(countyLayer["map"].labels) >= 2
    /\ overlayLayers("map") \subseteq layers["map"]
    /\ overlayLayers("houseMap") \cap layers["houseMap"] = {}

\* a property of an overlay feature is present: a non-empty string
present(x) == x.t = "string" /\ x.v # <<>>

\* the first present of name, NAME, County, or "Unknown"
identityName(props) ==
    IF present(props.name) THEN props.name.v
    ELSE IF present(props.NAME) THEN props.NAME.v
    ELSE IF present(props.County) THEN props.County.v
    ELSE <<"U", "n", "k", "n", "o", "w", "n">>

\* C18: every feature of a built county overlay has a popup, the popup shows
\* the first present of the feature's properties name, NAME and County, or
\* "Unknown" when none is present, and so does the feature's label where
\* the script makes labels.
C18_OverlayIdentityPopup ==
    \A m \in MapIds :
        countyLayer[m].built =>
            /\ Len(countyLayer[m].features) = Len(json[FCounties].value)
            /\ \A i \in 1..Len(json[FCounties].value) :
                  LET expected == identityName(json[FCounties].value[i].properties)
                  IN  /\ countyLayer[m].features[i].popup = Str(expected)
                      /\ i <= Len(countyLayer[m].labels) =>
                            countyLayer[m].labels[i].html = expected

\* every overlay feature parsed is a polygon or a multi-polygon
wellFormed ==
    \A i \in 1..Len(json[FCounties].value) :
        json[FCounties].value[i].geometry.type \in {"Polygon", "MultiPolygon"}

\* C19: loadData throws only when a fetch or a JSON parse failed: with every
\* fetch fulfilled and every file parsed as well-formed data it does not end
\* in an uncaught error, and when it has run to its end every map it created
\* has its district layer attached and its toggle or layer control added.
C19_PipelineCompletes ==
    /\ (pc.stage = "rejected" /\ wellFormed) =>
          pc.error \in {"TypeError: Failed to fetch", "SyntaxError: Unexpected token"}
    /\ pc.stage = "done" =>
          \A m \in maps : Districts \in layers[m] /\ control[m] # "none"

=============================================================================
